---------------------------- MODULE Spec2Model ----------------------------
(***************************************************************************)
(* Model of evolve.py: the Genotype operators (clone, mutate, procreate,   *)
(* average_mating, give_and_take_mating), the roulette selection of        *)
(* EvolutionRunner.select_next_generation and the generational loop of     *)
(* EvolutionRunner.evolution_loop.                                         *)
(*                                                                         *)
(* Floats are modelled as exact rationals [n, d] (genes, random draws,     *)
(* preferences, probabilities) or as integers (fitness values, weights).   *)
(* random.random() is a nondeterministic choice among the rationals        *)
(* k / RandDen with 0 <= k < RandDen, i.e. values of [0, 1).               *)
(***************************************************************************)
EXTENDS Integers, Sequences, FiniteSets, TLC

(***************************************************************************)
(* Bounds of the model.                                                    *)
(***************************************************************************)
\* Number of children select_next_generation creates.  The source sets
\* GENERATION_SIZE = 20 (evolve.py line 8); the model is parametric in it and
\* is checked with a small value.
GENERATION_SIZE == 2
\* random.random() takes the values k / RandDen, k in 0 .. RandDen - 1.
RandDen == 4
\* The generational loop is explored for at most MaxIterations generations.
MaxIterations == 2
\* Largest number of genes of a receiver genome in the operator calls.
MaxLen == 2
\* Number of in-place writes a caller performs after an operator call.
MaxWrites == 1

(***************************************************************************)
(* Exact rational arithmetic standing for float arithmetic.                *)
(***************************************************************************)
RECURSIVE GCD(_, _)
GCD(a, b) == IF b = 0 THEN a ELSE GCD(b, a % b)

Abs(x) == IF x < 0 THEN -x ELSE x

Rat(n, d) == LET g == GCD(Abs(n), d) IN [n |-> n \div g, d |-> d \div g]

FromInt(i) == [n |-> i, d |-> 1]

RatAdd(a, b) == Rat(a.n * b.d + b.n * a.d, a.d * b.d)

RatSub(a, b) == Rat(a.n * b.d - b.n * a.d, a.d * b.d)

RatMul(a, b) == Rat(a.n * b.n, a.d * b.d)

RatLE(a, b) == a.n * b.d <= b.n * a.d

RatLT(a, b) == a.n * b.d < b.n * a.d

RatAbs(a) == [n |-> Abs(a.n), d |-> a.d]

\* The values random.random() can return.
RandomValues == {Rat(k, RandDen) : k \in 0 .. RandDen - 1}

(***************************************************************************)
(* Optional values (None) and the outcome of a call (value or exception).  *)
(***************************************************************************)
None == [some |-> FALSE]

Some(v) == [some |-> TRUE, val |-> v]

Ok(v) == [err |-> "none", val |-> v]

Raise(e) == [err |-> e, val |-> <<>>]

(***************************************************************************)
(* Genotype.  A Genotype object holds one field, genes.  In the operator   *)
(* calls (SpecOps) the field is a reference to a list object of the heap;  *)
(* in the selection and the loop, which never write a gene list in place,  *)
(* the field holds the list's contents.                                    *)
(***************************************************************************)
Genotype(genes) == [genes |-> genes]

clone(self) == Genotype(self.genes)

\* Genotype.mutate.difference_with_max_amplitude, with r the random draw.
difference_with_max_amplitude(max_amplitude, r) ==
    RatAdd(RatSub(FromInt(0), max_amplitude),
           RatMul(RatMul(r, FromInt(2)), max_amplitude))

\* Genotype.mutate on the receiver's gene list.  bound: whether the call
\* binds the parameter ranges, which has no default value; ranges: None or
\* Some(list); coins[i], amps[i]: the random draws for gene i.
mutate(genes, bound, ranges, probability, coins, amps) ==
    IF ~bound THEN Raise("TypeError")
    ELSE LET rs == IF ranges = None THEN [i \in 1 .. Len(genes) |-> FromInt(1)]
                   ELSE ranges.val
         IN IF Len(rs) # Len(genes) THEN Raise("ValueError")
            ELSE Ok([i \in 1 .. Len(genes) |->
                        IF RatLE(coins[i], probability)
                        THEN RatAdd(genes[i],
                                    difference_with_max_amplitude(rs[i], amps[i]))
                        ELSE genes[i]])

\* Genotype.average_mating on gene lists: other.genes[gene_index] raises
\* IndexError when other is shorter; a longer other is read only up to
\* len(self.genes).
average_mating(genes, other, preference) ==
    IF Len(other) < Len(genes) THEN Raise("IndexError")
    ELSE LET scaling_factor == RatSub(FromInt(1), preference)
         IN Ok([i \in 1 .. Len(genes) |->
                   RatAdd(genes[i],
                          RatMul(scaling_factor, RatSub(other[i], genes[i])))])

\* Genotype.procreate on gene lists.
procreate(genes, other, preference) ==
    IF Len(other) # Len(genes) THEN Raise("ValueError")
    ELSE average_mating(genes, other, preference)

\* Genotype.give_and_take_mating on gene lists; coins[i] is the draw of gene
\* i.  other.genes[i] is read, and raises IndexError past the end of other,
\* only for the genes whose draw selects it.
give_and_take_mating(genes, other, preference, coins) ==
    IF \E i \in 1 .. Len(genes) : RatLE(coins[i], preference) /\ i > Len(other)
    THEN Raise("IndexError")
    ELSE Ok([i \in 1 .. Len(genes) |->
                IF RatLE(coins[i], preference) THEN other[i] ELSE genes[i]])

\* Default arguments of the source.
DefaultPreference == Rat(1, 2)

DefaultProbability == Rat(5, 100)

(***************************************************************************)
(* State.                                                                  *)
(***************************************************************************)
VARIABLES
    entry,                    \* the method the caller invoked
    pc,                       \* position of the call in progress
    error,                    \* exception that ended the call, or "none"
    \* evolution_loop: parameters and locals
    stop_at_fitness_limit, stop_at_iteration_limit,
    fitness_limit, iteration_limit,
    caller_gene_pool,         \* the list object the caller passed
    gene_pool,                \* the local name gene_pool
    current_iteration, current_fitness, best_individual,
    cohort, scored_cohort, generation_fitness, generation_leader,
    \* select_next_generation: parameters and locals
    clone_weight, mutate_weight, mate_weight,
    cummulative_scale, probability_sum, next_generation,
    last_child,               \* how the latest create_child() went
    \* calls made to the overridable methods; evaluated[f] is the first
    \* individual of the run whose evaluation returned f, if any
    decode_calls, evaluate_calls, select_calls, evaluated,
    \* operator calls on Genotype objects
    heap,                     \* the list objects, by address
    self_g, other_g,          \* the receiver and the partner Genotype
    op, args,                 \* the operator called and its arguments
    result,                   \* the outcome of the operator call
    snapshot,                 \* contents of the two parents' lists at the call
    writes                    \* the objects written in place since the call

loop_vars == <<stop_at_fitness_limit, stop_at_iteration_limit, fitness_limit,
               iteration_limit, caller_gene_pool, gene_pool, current_iteration,
               current_fitness, best_individual, cohort, generation_fitness,
               generation_leader, decode_calls, evaluate_calls, evaluated>>

select_vars == <<clone_weight, mutate_weight, mate_weight, cummulative_scale,
                 probability_sum, next_generation, last_child, select_calls>>

ops_vars == <<heap, self_g, other_g, op, args, result, snapshot, writes>>

vars == <<entry, pc, error, scored_cohort, loop_vars, select_vars, ops_vars>>

(***************************************************************************)
(* Phenotype and the two methods a subclass supplies.                      *)
(***************************************************************************)
\* A Phenotype object: id stands for the object's identity (the generation
\* that decoded it and its place in the cohort), genome is its field.
Phenotype(id, genome) == [id |-> id, genome |-> genome]

\* EvolutionRunner.decode_genes as a subclass supplies it: one Phenotype per
\* Genotype, in order; generation numbers the calls.
decode_genes(genes, generation) ==
    [i \in 1 .. Len(genes) |-> Phenotype(<<generation, i>>, genes[i])]

\* The values EvolutionRunner.evaluate_fitness may return.
FitnessValues == {-1, 2}

\* EvolutionRunner.translate_fitness_to_probability
translate_fitness_to_probability(fitness) == fitness

(***************************************************************************)
(* select_next_generation                                                  *)
(***************************************************************************)
RECURSIVE probability_sum_upto(_, _)
\* probability_sum after the first k entries of scored_cohort.
probability_sum_upto(scored, k) ==
    IF k = 0 THEN 0
    ELSE probability_sum_upto(scored, k - 1)
         + translate_fitness_to_probability(scored[k][2])

\* The list cummulative_scale built from scored_cohort.
build_cummulative_scale(scored) ==
    [k \in 1 .. Len(scored) |->
        <<probability_sum_upto(scored, k), scored[k][1].genome>>]

\* select_next_generation.get_genome_by_roulette_value
get_genome_by_roulette_value(scale, roulette_value) ==
    LET hits == {k \in 1 .. Len(scale) : RatLE(roulette_value, FromInt(scale[k][1]))}
    IN IF hits = {} THEN Raise("ValueError")
       ELSE Ok(scale[CHOOSE k \in hits : \A j \in hits : k <= j][2])

\* selection_method with the clone test made against mutate_weight.
selection_method_wrong_weight(roulette_value, cw, mw) ==
    IF RatLE(roulette_value, FromInt(mw)) THEN "clone"
    ELSE IF RatLE(roulette_value, FromInt(cw + mw)) THEN "mutate"
    ELSE "mate"

\* The branch create_child takes for a roulette value.
selection_method(roulette_value, cw, mw) ==
    IF RatLE(roulette_value, FromInt(cw)) THEN "clone"
    ELSE IF RatLE(roulette_value, FromInt(cw + mw)) THEN "mutate"
    ELSE "mate"

\* select_next_generation.create_child; r1, r2, r3 are the three draws of
\* random.random().  The result records the branch taken and the primary
\* parent besides the outcome.
create_child(scale, psum, cw, mw, mtw, r1, r2, r3) ==
    LET weight_sum == cw + mw + mtw
        roulette_value_for_selection_method == RatMul(r1, FromInt(weight_sum))
        roulette_value_for_child_selection == RatMul(r2, FromInt(psum))
        genome == get_genome_by_roulette_value(scale, roulette_value_for_child_selection)
        method == selection_method(roulette_value_for_selection_method, cw, mw)
    IN IF genome.err # "none"
       THEN [err |-> genome.err, val |-> <<>>, method |-> "none", parent |-> <<>>]
       ELSE IF method = "clone"
       THEN [err |-> "none", val |-> clone(genome.val), method |-> method,
             parent |-> genome.val]
       ELSE IF method = "mutate"
       THEN LET m == mutate(genome.val.genes, FALSE, None, DefaultProbability,
                            <<>>, <<>>)
            IN [err |-> m.err,
                val |-> IF m.err = "none" THEN Genotype(m.val) ELSE <<>>,
                method |-> method, parent |-> genome.val]
       ELSE LET roulette_value_for_partner_selection == RatMul(r3, FromInt(psum))
                partner_genome ==
                    get_genome_by_roulette_value(scale, roulette_value_for_partner_selection)
            IN IF partner_genome.err # "none"
               THEN [err |-> partner_genome.err, val |-> <<>>, method |-> method,
                     parent |-> genome.val]
               ELSE LET c == procreate(genome.val.genes, partner_genome.val.genes,
                                       DefaultPreference)
                    IN [err |-> c.err,
                        val |-> IF c.err = "none" THEN Genotype(c.val) ELSE <<>>,
                        method |-> method, parent |-> genome.val]

NoChild == [err |-> "none", val |-> <<>>, method |-> "none", parent |-> <<>>]

(***************************************************************************)
(* evolution_loop                                                          *)
(***************************************************************************)
\* float("-inf"): below every fitness value.
NegInf == -1000

\* validate_stop_criteria without the check of iteration_limit.
validate_stop_criteria_fitness_only(sfl, fl, sil, il) ==
    IF sfl /\ fl = None THEN "ValueError" ELSE "none"

\* The two checks that open evolution_loop.
validate_stop_criteria(sfl, fl, sil, il) ==
    IF sfl /\ fl = None THEN "ValueError"
    ELSE IF sil /\ il = None THEN "ValueError"
    ELSE "none"

\* The while condition, evaluated left to right with short-circuit; comparing
\* a number with None raises TypeError.
while_condition(ci, il, sil, cf, fl, sfl) ==
    IF il = None THEN "TypeError"
    ELSE IF ~(ci < il.val \/ ~sil) THEN "false"
    ELSE IF fl = None THEN "TypeError"
    ELSE IF cf < fl.val \/ ~sfl THEN "true"
    ELSE "false"

\* track_best with >= in place of the strict comparisons.
track_best_non_strict(fitness, individual, gf, gl, cf, bi) ==
    IF fitness >= gf
    THEN [generation_fitness |-> fitness,
          generation_leader |-> Some(individual),
          current_fitness |-> IF fitness >= cf THEN fitness ELSE cf,
          best_individual |-> IF fitness >= cf THEN Some(individual) ELSE bi]
    ELSE [generation_fitness |-> gf, generation_leader |-> gl,
          current_fitness |-> cf, best_individual |-> bi]

\* The bookkeeping of one evaluated individual (the body of the for loop).
track_best(fitness, individual, gf, gl, cf, bi) ==
    IF fitness > gf
    THEN [generation_fitness |-> fitness,
          generation_leader |-> Some(individual),
          current_fitness |-> IF fitness > cf THEN fitness ELSE cf,
          best_individual |-> IF fitness > cf THEN Some(individual) ELSE bi]
    ELSE [generation_fitness |-> gf, generation_leader |-> gl,
          current_fitness |-> cf, best_individual |-> bi]

(***************************************************************************)
(* Inputs of the calls.                                                    *)
(***************************************************************************)
\* Largest gene pool, and largest scored cohort, a caller passes.
MaxPopulation == 2

\* The i-th genome of a scored cohort: the one-gene genome [i - 1].
InputGenome(i) == Genotype(<<FromInt(i - 1)>>)

\* The gene pools passed to evolution_loop, which reads no gene: n copies
\* of the one-gene genome [0].
InputGenePools ==
    {[i \in 1 .. n |-> Genotype(<<FromInt(0)>>)] : n \in 0 .. MaxPopulation}

FitnessLimits == {None, Some(2)}

IterationLimits == {None} \cup {Some(n) : n \in 0 .. MaxIterations}

\* Scored cohorts passed to select_next_generation: the input genomes with
\* any fitness values.
InputScoredCohorts ==
    UNION {{[i \in 1 .. n |-> <<Phenotype(<<0, i>>, InputGenome(i)), f[i]>>] :
               f \in [1 .. n -> FitnessValues]} : n \in 0 .. MaxPopulation}

\* (clone_weight, mutate_weight, mate_weight) passed to select_next_generation.
InputWeights == {<<1, 1, 1>>, <<1, 0, 0>>, <<2, 0, 0>>, <<0, 1, 0>>, <<0, 0, 1>>,
                 <<1, 0, 1>>}

\* No operator call was made.
NoResult == [err |-> "pending", val |-> <<>>]

IdleOps ==
    /\ heap = <<>> /\ self_g = None /\ other_g = None /\ op = "none"
    /\ args = <<>> /\ result = NoResult /\ snapshot = <<>> /\ writes = <<>>

IdleSelect ==
    /\ cummulative_scale = <<>> /\ probability_sum = 0 /\ next_generation = <<>>
    /\ last_child = NoChild /\ select_calls = 0

IdleLoop ==
    /\ current_iteration = 0 /\ current_fitness = NegInf /\ best_individual = None
    /\ cohort = <<>> /\ generation_fitness = NegInf /\ generation_leader = None
    /\ decode_calls = 0 /\ evaluate_calls = 0
    /\ evaluated = [f \in FitnessValues |-> None]

\* A caller invokes evolution_loop.
InitLoop ==
    /\ entry = "evolution_loop" /\ pc = "start" /\ error = "none"
    /\ stop_at_fitness_limit \in BOOLEAN
    /\ stop_at_iteration_limit \in BOOLEAN
    /\ fitness_limit \in FitnessLimits
    /\ iteration_limit \in IterationLimits
    /\ caller_gene_pool \in InputGenePools
    /\ gene_pool = caller_gene_pool
    /\ scored_cohort = <<>>
    /\ clone_weight = 0 /\ mutate_weight = 0 /\ mate_weight = 0
    /\ IdleLoop /\ IdleSelect /\ IdleOps

\* A caller invokes select_next_generation on a scored cohort.
InitSelect ==
    /\ entry = "select_next_generation" /\ pc = "select" /\ error = "none"
    /\ stop_at_fitness_limit = FALSE /\ stop_at_iteration_limit = FALSE
    /\ fitness_limit = None /\ iteration_limit = None
    /\ caller_gene_pool = <<>> /\ gene_pool = <<>>
    /\ scored_cohort \in InputScoredCohorts
    /\ \E w \in InputWeights :
          clone_weight = w[1] /\ mutate_weight = w[2] /\ mate_weight = w[3]
    /\ IdleLoop /\ IdleSelect /\ IdleOps

(***************************************************************************)
(* Actions of evolution_loop.                                              *)
(***************************************************************************)
Fail(e) == pc' = "failed" /\ error' = e

\* Lines 161-168: the two checks, then the initial values of the locals.
Validate ==
    /\ pc = "start"
    /\ LET e == validate_stop_criteria(stop_at_fitness_limit, fitness_limit,
                                       stop_at_iteration_limit, iteration_limit)
       IN IF e # "none"
          THEN /\ Fail(e)
               /\ UNCHANGED <<current_iteration, current_fitness, best_individual>>
          ELSE /\ pc' = "while" /\ error' = error
               /\ current_iteration' = 0
               /\ current_fitness' = NegInf
               /\ best_individual' = None
    /\ UNCHANGED <<entry, scored_cohort, select_vars, ops_vars,
                   stop_at_fitness_limit, stop_at_iteration_limit, fitness_limit,
                   iteration_limit, caller_gene_pool, gene_pool, cohort,
                   generation_fitness, generation_leader, decode_calls,
                   evaluate_calls, evaluated>>

\* Lines 170-171: the while condition.
WhileTest ==
    /\ pc = "while"
    /\ LET c == while_condition(current_iteration, iteration_limit,
                                stop_at_iteration_limit, current_fitness,
                                fitness_limit, stop_at_fitness_limit)
       IN CASE c = "TypeError" -> Fail("TypeError")
            [] c = "false" -> pc' = "terminated" /\ error' = error
            [] c = "true" -> /\ current_iteration < MaxIterations
                             /\ pc' = "decode" /\ error' = error
    /\ UNCHANGED <<entry, scored_cohort, loop_vars, select_vars, ops_vars>>

\* Lines 172-175: decode the gene pool, reset the generation's locals.
Decode ==
    /\ pc = "decode"
    /\ cohort' = decode_genes(gene_pool, decode_calls + 1)
    /\ decode_calls' = decode_calls + 1
    /\ scored_cohort' = <<>>
    /\ generation_fitness' = NegInf
    /\ generation_leader' = None
    /\ pc' = "for"
    /\ UNCHANGED <<entry, error, select_vars, ops_vars, stop_at_fitness_limit,
                   stop_at_iteration_limit, fitness_limit, iteration_limit,
                   caller_gene_pool, gene_pool, current_iteration, current_fitness,
                   best_individual, evaluate_calls, evaluated>>

\* Lines 177-185: one turn of the for loop over the cohort.
Evaluate ==
    /\ pc = "for"
    /\ Len(scored_cohort) < Len(cohort)
    /\ LET individual == cohort[Len(scored_cohort) + 1]
       IN \E fitness \in FitnessValues :
            LET t == track_best(fitness, individual, generation_fitness,
                                generation_leader, current_fitness, best_individual)
            IN /\ generation_fitness' = t.generation_fitness
               /\ generation_leader' = t.generation_leader
               /\ current_fitness' = t.current_fitness
               /\ best_individual' = t.best_individual
               /\ scored_cohort' = Append(scored_cohort, <<individual, fitness>>)
               /\ evaluated' = IF evaluated[fitness] = None
                               THEN [evaluated EXCEPT ![fitness] = Some(individual.id)]
                               ELSE evaluated
    /\ evaluate_calls' = evaluate_calls + 1
    /\ UNCHANGED <<entry, pc, error, select_vars, ops_vars, stop_at_fitness_limit,
                   stop_at_iteration_limit, fitness_limit, iteration_limit,
                   caller_gene_pool, gene_pool, current_iteration, cohort,
                   decode_calls>>

\* Line 187: the for loop is over; select_next_generation(scored_cohort) is
\* called with the default weights.
CallSelect ==
    /\ pc = "for"
    /\ Len(scored_cohort) = Len(cohort)
    /\ clone_weight' = 1 /\ mutate_weight' = 1 /\ mate_weight' = 1
    /\ pc' = "select"
    /\ UNCHANGED <<entry, error, scored_cohort, loop_vars, ops_vars,
                   cummulative_scale, probability_sum, next_generation,
                   last_child, select_calls>>

\* Lines 187-191: the new pool is bound to the local gene_pool and the
\* iteration is counted (the two print calls change no state).
NextIteration ==
    /\ pc = "create_child"
    /\ entry = "evolution_loop"
    /\ Len(next_generation) = GENERATION_SIZE
    /\ gene_pool' = next_generation
    /\ current_iteration' = current_iteration + 1
    /\ pc' = "while"
    /\ UNCHANGED <<entry, error, scored_cohort, select_vars, ops_vars,
                   stop_at_fitness_limit, stop_at_iteration_limit, fitness_limit,
                   iteration_limit, caller_gene_pool, current_fitness,
                   best_individual, cohort, generation_fitness, generation_leader,
                   decode_calls, evaluate_calls, evaluated>>

(***************************************************************************)
(* Actions of select_next_generation.                                      *)
(***************************************************************************)
\* Lines 118-130: the cumulative scale and the sums.
BuildScale ==
    /\ pc = "select"
    /\ cummulative_scale' = build_cummulative_scale(scored_cohort)
    /\ probability_sum' = probability_sum_upto(scored_cohort, Len(scored_cohort))
    /\ next_generation' = <<>>
    /\ last_child' = NoChild
    /\ select_calls' = select_calls + 1
    /\ pc' = "create_child"
    /\ UNCHANGED <<entry, error, scored_cohort, loop_vars, ops_vars,
                   clone_weight, mutate_weight, mate_weight>>

\* Lines 132-145: one create_child() of the list comprehension.
CreateChild ==
    /\ pc = "create_child"
    /\ Len(next_generation) < GENERATION_SIZE
    /\ \E r1, r2 \in RandomValues :
       \* the third draw is made in the mate branch only
       \E r3 \in IF selection_method(
                      RatMul(r1, FromInt(clone_weight + mutate_weight + mate_weight)),
                      clone_weight, mutate_weight) = "mate"
                 THEN RandomValues ELSE {FromInt(0)} :
         LET c == create_child(cummulative_scale, probability_sum, clone_weight,
                               mutate_weight, mate_weight, r1, r2, r3)
         IN /\ last_child' = c
            /\ IF c.err # "none"
               THEN Fail(c.err) /\ next_generation' = next_generation
               ELSE /\ next_generation' = Append(next_generation, c.val)
                    /\ pc' = pc /\ error' = error
    /\ UNCHANGED <<entry, scored_cohort, loop_vars, ops_vars, clone_weight,
                   mutate_weight, mate_weight, cummulative_scale,
                   probability_sum, select_calls>>

\* Line 146: select_next_generation returns to its caller.
SelectReturn ==
    /\ pc = "create_child"
    /\ entry = "select_next_generation"
    /\ Len(next_generation) = GENERATION_SIZE
    /\ pc' = "returned"
    /\ UNCHANGED <<entry, error, scored_cohort, loop_vars, select_vars, ops_vars>>

SelectNext == BuildScale \/ CreateChild \/ SelectReturn

Next ==
    \/ Validate \/ WhileTest \/ Decode \/ Evaluate \/ CallSelect \/ NextIteration
    \/ BuildScale \/ CreateChild

\* evolution_loop, called with any flags, limits and gene pool.
Spec == InitLoop /\ [][Next]_vars

\* select_next_generation, called with any scored cohort and weights.
SpecSelect == InitSelect /\ [][SelectNext]_vars

(***************************************************************************)
(* Calls of the Genotype operators on two Genotype objects whose gene      *)
(* lists live in the heap, followed by in-place writes by the caller.      *)
(***************************************************************************)
\* The receiver's gene lists: 1 .. MaxLen genes, each 0.0 or 2.0.
SelfGeneLists == UNION {[1 .. n -> {FromInt(0), FromInt(2)}] : n \in 1 .. MaxLen}

\* The partner's gene lists: 1 .. MaxLen + 1 genes, each 1.0.
OtherGeneLists == {[i \in 1 .. n |-> FromInt(1)] : n \in 1 .. MaxLen + 1}

\* The ranges argument of mutate: None, or a list of 1 .. MaxLen + 1 ranges,
\* each 2.0.
RangesArgs ==
    {None} \cup {Some([i \in 1 .. n |-> FromInt(2)]) : n \in 1 .. MaxLen + 1}

Preferences == {FromInt(0), DefaultPreference, FromInt(1)}

Probabilities == {FromInt(0), DefaultProbability, FromInt(1)}

\* The value an in-place write stores.
WrittenGene == FromInt(7)

NoArgs == [bound |-> TRUE, ranges |-> None, probability |-> DefaultProbability,
           preference |-> DefaultPreference, coins |-> <<>>]

\* The list object a Genotype refers to.
Deref(g) == heap[g.genes]

\* A caller holds two Genotype objects, each with a list of its own.
InitOps ==
    /\ entry = "operators" /\ pc = "idle" /\ error = "none"
    /\ stop_at_fitness_limit = FALSE /\ stop_at_iteration_limit = FALSE
    /\ fitness_limit = None /\ iteration_limit = None
    /\ caller_gene_pool = <<>> /\ gene_pool = <<>>
    /\ scored_cohort = <<>>
    /\ clone_weight = 0 /\ mutate_weight = 0 /\ mate_weight = 0
    /\ IdleLoop /\ IdleSelect
    /\ \E a \in SelfGeneLists, b \in OtherGeneLists : heap = <<a, b>>
    /\ self_g = Genotype(1) /\ other_g = Genotype(2)
    /\ op = "none" /\ args = NoArgs /\ result = NoResult
    /\ snapshot = <<>> /\ writes = <<>>

\* The call returns: a raised exception, or a new Genotype whose genes field
\* refers to a newly allocated list holding r.val.
ReturnNewGenotype(name, a, r) ==
    /\ pc = "idle"
    /\ op' = name /\ args' = a
    /\ snapshot' = [self |-> Deref(self_g), other |-> Deref(other_g)]
    /\ IF r.err # "none"
       THEN heap' = heap /\ result' = Raise(r.err)
       ELSE heap' = Append(heap, r.val) /\ result' = Ok(Genotype(Len(heap) + 1))
    /\ pc' = "called" /\ error' = r.err
    /\ UNCHANGED <<entry, scored_cohort, loop_vars, select_vars, self_g, other_g,
                   writes>>

\* self.clone(): the new Genotype is built from self.genes itself.
CallClone ==
    /\ pc = "idle"
    /\ op' = "clone" /\ args' = NoArgs
    /\ snapshot' = [self |-> Deref(self_g), other |-> Deref(other_g)]
    /\ result' = Ok(clone(self_g))
    /\ pc' = "called"
    /\ UNCHANGED <<entry, error, scored_cohort, loop_vars, select_vars, heap,
                   self_g, other_g, writes>>

\* self.mutate(ranges, probability), or self.mutate() that binds no ranges.
CallMutate ==
    \E bound \in BOOLEAN, ranges \in RangesArgs, probability \in Probabilities :
    \E coins, amps \in [1 .. Len(Deref(self_g)) -> RandomValues] :
       /\ ~bound => ranges = None /\ probability = DefaultProbability
       /\ ReturnNewGenotype("mutate",
             [NoArgs EXCEPT !.bound = bound, !.ranges = ranges,
                            !.probability = probability],
             mutate(Deref(self_g), bound, ranges, probability, coins, amps))

\* self.procreate(other, preference)
CallProcreate ==
    \E preference \in Preferences :
       /\ preference \in Preferences
       /\ ReturnNewGenotype("procreate", [NoArgs EXCEPT !.preference = preference],
                            procreate(Deref(self_g), Deref(other_g), preference))

\* self.average_mating(other, preference)
CallAverageMating ==
    \E preference \in Preferences :
       /\ preference \in Preferences
       /\ ReturnNewGenotype("average_mating", [NoArgs EXCEPT !.preference = preference],
                            average_mating(Deref(self_g), Deref(other_g), preference))

\* self.give_and_take_mating(other, preference)
CallGiveAndTakeMating ==
    \E preference \in Preferences :
    \E coins \in [1 .. Len(Deref(self_g)) -> RandomValues] :
       /\ preference \in Preferences
       /\ ReturnNewGenotype("give_and_take_mating",
                            [NoArgs EXCEPT !.preference = preference, !.coins = coins],
                            give_and_take_mating(Deref(self_g), Deref(other_g),
                                                 preference, coins))

\* The caller writes one gene of a Genotype in place: g.genes[i] = 7.0, with g
\* the receiver, the partner or the returned Genotype.
WriteGene ==
    /\ pc = "called"
    /\ Len(writes) < MaxWrites
    /\ \E target \in {"self", "other", "result"} :
         /\ target = "result" => result.err = "none"
         /\ LET g == CASE target = "self" -> self_g
                       [] target = "other" -> other_g
                       [] target = "result" -> result.val
            IN \E i \in 1 .. Len(Deref(g)) :
                  heap' = [heap EXCEPT ![g.genes][i] = WrittenGene]
         /\ writes' = Append(writes, target)
    /\ UNCHANGED <<entry, pc, error, scored_cohort, loop_vars, select_vars,
                   self_g, other_g, op, args, result, snapshot>>

OpsNext ==
    \/ CallClone \/ CallMutate \/ CallProcreate \/ CallAverageMating
    \/ CallGiveAndTakeMating \/ WriteGene

\* The Genotype operators, called with any partner and arguments.
SpecOps == InitOps /\ [][OpsNext]_vars

(***************************************************************************)
(* Properties.                                                             *)
(***************************************************************************)
\* The fitness values evaluated so far, and the largest of them.
SeenFitness == {f \in FitnessValues : evaluated[f] # None}

MaxSeen == CHOOSE f \in SeenFitness : \A g \in SeenFitness : g <= f

\* C1: with stop_at_iteration_limit = true, an iteration_limit N >= 0 and
\* stop_at_fitness_limit = false (fitness_limit supplied or not), the loop
\* does not end in an exception and executes at most N generations.
C1_IterationLimitTerminates ==
    (stop_at_iteration_limit /\ iteration_limit # None /\ ~stop_at_fitness_limit)
    => /\ pc # "failed"
       /\ decode_calls <= iteration_limit.val

\* C2: with stop_at_fitness_limit = true, a fitness_limit F and
\* stop_at_iteration_limit = false (iteration_limit supplied or not), the
\* loop does not stop (normally or by an exception) while no evaluated
\* individual had fitness >= F, and the first generation in which a fitness
\* >= F is evaluated is the last one that is executed.
C2_StopsAtFitnessLimit ==
    (stop_at_fitness_limit /\ fitness_limit # None /\ ~stop_at_iteration_limit)
    => /\ pc # "failed"
       /\ pc = "terminated"
            => \E f \in SeenFitness : f >= fitness_limit.val
       /\ \A f \in SeenFitness :
            f >= fitness_limit.val => evaluated[f].val[1] = decode_calls

\* An enabled stop flag whose limit is None.
MissingLimit ==
    \/ stop_at_fitness_limit /\ fitness_limit = None
    \/ stop_at_iteration_limit /\ iteration_limit = None

\* C3: when an enabled stop flag lacks its limit, evolution_loop fails with
\* ValueError (the spec's ConfigurationError) before any generation:
\* decode_genes, evaluate_fitness and select_next_generation are never called
\* and the gene pool is the one the caller passed.
C3_MissingLimitFailsFast ==
    (MissingLimit /\ pc # "start")
    => /\ pc = "failed" /\ error = "ValueError"
       /\ decode_calls = 0 /\ evaluate_calls = 0 /\ select_calls = 0
       /\ cohort = <<>> /\ next_generation = <<>>
       /\ gene_pool = caller_gene_pool
       /\ caller_gene_pool \in InputGenePools

\* C3 witness: the call failed on a missing iteration_limit alone.
C3_Witness ==
    /\ pc = "failed" /\ error = "ValueError"
    /\ stop_at_iteration_limit /\ iteration_limit = None
    /\ ~(stop_at_fitness_limit /\ fitness_limit = None)
    /\ Len(caller_gene_pool) = MaxPopulation

\* C4: after every evaluation current_fitness is the largest fitness
\* evaluated so far in the run, and best_individual is the first individual
\* whose evaluation returned it; before any evaluation they are -inf and None.
C4_BestSoFarExact ==
    IF SeenFitness = {}
    THEN current_fitness = NegInf /\ best_individual = None
    ELSE /\ current_fitness = MaxSeen
         /\ best_individual # None
         /\ best_individual.val.id = evaluated[MaxSeen].val

\* C4 witness: in the second generation an individual was evaluated with the
\* best fitness of the first generation, lower ones before it, and the best
\* individual is still the one of the first generation.
C4_Witness ==
    /\ pc = "for" /\ decode_calls = 2 /\ Len(scored_cohort) = 2
    /\ scored_cohort[1][2] < current_fitness
    /\ scored_cohort[2][2] = current_fitness
    /\ best_individual # None
    /\ best_individual.val.id[1] = 1

\* The probability mass of the scored cohort.
ProbabilityMass == probability_sum_upto(scored_cohort, Len(scored_cohort))

\* C5: for a non-empty scored cohort of equal-length genomes with positive
\* probability mass and weights of positive sum, select_next_generation
\* raises nothing and returns exactly GENERATION_SIZE genomes.
C5_SelectReturnsGenerationSize ==
    (/\ entry = "select_next_generation"
     /\ Len(scored_cohort) > 0
     /\ ProbabilityMass > 0
     /\ clone_weight + mutate_weight + mate_weight > 0)
    => /\ pc # "failed"
       /\ pc = "returned" => Len(next_generation) = GENERATION_SIZE

\* The call of select_next_generation that clones only.
CloneOnlyCall ==
    /\ entry = "select_next_generation"
    /\ clone_weight > 0 /\ mutate_weight = 0 /\ mate_weight = 0
    /\ Len(scored_cohort) > 0
    /\ \A k \in 1 .. Len(scored_cohort) : scored_cohort[k][2] > 0

\* C6: with clone_weight > 0 and mutate_weight = mate_weight = 0 on a
\* non-empty cohort of positive fitness, no child creation fails or takes the
\* mutate or mate branch, and every child's genes equal the genes of a genome
\* of the cohort.
C6_CloneOnlyChildren ==
    CloneOnlyCall
    => /\ pc # "failed"
       /\ last_child.method \in {"none", "clone"}
       /\ \A j \in 1 .. Len(next_generation) :
            \E k \in 1 .. Len(scored_cohort) :
               next_generation[j].genes = scored_cohort[k][1].genome.genes

\* C6 witness: a clone-only call returned clones of two different genomes.
C6_Witness ==
    /\ CloneOnlyCall /\ pc = "returned"
    /\ Len(next_generation) = GENERATION_SIZE
    /\ \E i, j \in 1 .. Len(next_generation) :
          next_generation[i].genes # next_generation[j].genes

\* C7: average_mating and procreate with a partner of another gene count,
\* and mutate with a ranges list of another length, raise ValueError (the
\* spec's ValidationError) and return no genome.
C7_MismatchedLengthRaises ==
    (\/ /\ op \in {"average_mating", "procreate"}
        /\ Len(snapshot.other) # Len(snapshot.self)
     \/ /\ op = "mutate" /\ args.bound /\ args.ranges # None
        /\ Len(args.ranges.val) # Len(snapshot.self))
    => result.err = "ValueError"

\* C8: the genome clone() returns has the original's genes, and in-place
\* writes to the genes of the one leave the genes of the other unchanged.
C8_CloneSharesNothing ==
    (op = "clone" /\ result.err = "none")
    => /\ writes = <<>> => Deref(result.val) = snapshot.self
       /\ (\A k \in 1 .. Len(writes) : writes[k] \in {"result", "other"})
            => Deref(self_g) = snapshot.self
       /\ (\A k \in 1 .. Len(writes) : writes[k] \in {"self", "other"})
            => Deref(result.val) = snapshot.self

\* C9: give_and_take_mating with a partner of the same gene count takes child
\* gene i from self when the draw of gene i is below preference and from
\* other otherwise; so the child is self at preference 1 and other at
\* preference 0.
C9_GiveAndTakePrefersSelf ==
    (/\ op = "give_and_take_mating" /\ writes = <<>>
     /\ Len(snapshot.other) = Len(snapshot.self))
    => /\ result.err = "none"
       /\ Len(Deref(result.val)) = Len(snapshot.self)
       /\ \A i \in 1 .. Len(snapshot.self) :
            Deref(result.val)[i] =
               IF RatLT(args.coins[i], args.preference)
               THEN snapshot.self[i] ELSE snapshot.other[i]

\* C10: a child created in the mutate branch is created without exception,
\* has the gene count of its primary parent, and each of its genes differs
\* from the parent's by less than 1.0.
C10_MutateBranchSucceeds ==
    last_child.method = "mutate"
    => /\ last_child.err = "none"
       /\ Len(last_child.val.genes) = Len(last_child.parent.genes)
       /\ \A i \in 1 .. Len(last_child.parent.genes) :
            RatLT(RatAbs(RatSub(last_child.val.genes[i],
                                last_child.parent.genes[i])), FromInt(1))

=============================================================================
